---- MODULE Spec2Model ----
(***************************************************************************)
(* Model of feast/infra/offline_stores/file_source.py: the FileSource data *)
(* source descriptor, its nested FileOptions record, the wire (protobuf)   *)
(* conversions, the path resolver create_filesystem_and_path, the schema   *)
(* lookup get_table_column_names_and_types and SavedDatasetFileStorage.    *)
(*                                                                         *)
(* Python values: a str is a TLA+ string, except where the code looks      *)
(* inside a path (startswith / replace / split), where a path is a         *)
(* sequence of tokens (see the resolver section).  Python's None is the    *)
(* value None below, which is in none of the string domains.  A dict is a  *)
(* set of <<key, value>> pairs.  An object is a record with a class field. *)
(***************************************************************************)
EXTENDS Integers, Sequences, FiniteSets, TLC

VARIABLES
    src,        \* the live FileSource of the client program, or NoObj
    store,      \* the live SavedDatasetFileStorage, or NoObj
    out,        \* outcome of the last operation: what was called, with what, what it returned or raised
    lhs,        \* left operand of a comparison  (SpecEq)
    rhs,        \* right operand of a comparison (SpecEq)
    call,       \* the argument pair and the result of create_filesystem_and_path (SpecResolve)
    pc,         \* per caller: position inside get_table_column_names_and_types (SpecIntrospect)
    self_path,  \* per caller: self.path of the FileSource being introspected
    l_filesystem, \* per caller: local variable filesystem
    l_path,     \* per caller: local variable path
    table,      \* per caller: the table read by pq.read_table, in memory
    ret,        \* per caller: the returned schema
    disk        \* the local filesystem shared by all callers: path -> stored table

vars == <<src, store, out, lhs, rhs, call, pc, self_path, l_filesystem, l_path, table, ret, disk>>
eqVars == <<lhs, rhs>>
introVars == <<pc, self_path, l_filesystem, l_path, table, ret, disk>>

None == "None"
NoObj == [class |-> "NoneType"]
Idle == [op |-> "idle"]

\* Python truthiness of an Optional[str]
Truthy(x) == x # None /\ x # ""

-----------------------------------------------------------------------------
(* Input domains of the client program *)

PathStrs == {"", "data/f.parquet", "s3://bkt/f.parquet"}
NameStrs == {"", "driver_stats"}
EventTsCols == {"", "event_ts"}
CreatedTsCols == {"", "created_ts"}
PartitionCols == {"", "dt"}
FieldMappings == {{}, {<<"col", "feature">>}}
FileFormats == {"ParquetFormat"}
EndpointStrs == {"", "http://minio:9000"}

Opt(S) == S \cup {None}

-----------------------------------------------------------------------------
(* Collaborators that are not in file_source.py *)

\* feast.data_format.FileFormat.to_proto: the oneof tag that gets set
FileFormat_to_proto(file_format) ==
    IF file_format = "ParquetFormat" THEN "parquet_format" ELSE "unknown_format"

\* feast.data_format.FileFormat.from_proto: WhichOneof("format") decides
FileFormat_from_proto(proto) ==
    IF proto = "parquet_format" THEN "ParquetFormat" ELSE None

\* protobuf constructor keyword for a string field: None leaves the field
\* unset, and an unset string field reads as ""
ProtoStr(x) == IF x = None THEN "" ELSE x

\* protobuf constructor keyword for a message field: None leaves it unset
ProtoMsg(x) == IF x = None THEN "unset" ELSE x

\* feast.data_source.DataSource.__init__: stores the five base fields,
\* absent/empty ones as "" and {}
DataSource_init(obj, name, event_timestamp_column, created_timestamp_column, field_mapping, date_partition_column) ==
    [class |-> "FileSource",
     file_options |-> obj.file_options,
     name |-> name,
     event_timestamp_column |->
         IF Truthy(event_timestamp_column) THEN event_timestamp_column ELSE "",
     created_timestamp_column |->
         IF Truthy(created_timestamp_column) THEN created_timestamp_column ELSE "",
     field_mapping |-> IF field_mapping # {} THEN field_mapping ELSE {},
     date_partition_column |->
         IF Truthy(date_partition_column) THEN date_partition_column ELSE ""]

-----------------------------------------------------------------------------
(* class FileOptions *)

FileOptions_init(file_format, file_url, s3_endpoint_override) ==
    [_file_format |-> file_format,
     _file_url |-> file_url,
     _s3_endpoint_override |-> s3_endpoint_override]

FileOptions_file_format(fo) == fo._file_format

FileOptions_file_url(fo) == fo._file_url

\* the getter, had it returned the stored value as it is
s3_endpoint_override_as_stored(fo) == fo._s3_endpoint_override

\* FileOptions.s3_endpoint_override
FileOptions_s3_endpoint_override(fo) ==
    IF fo._s3_endpoint_override = "" THEN None ELSE fo._s3_endpoint_override

FileOptions_set_file_format(fo, file_format) ==
    [fo EXCEPT !._file_format = file_format]

FileOptions_set_file_url(fo, file_url) ==
    [fo EXCEPT !._file_url = file_url]

FileOptions_set_s3_endpoint_override(fo, s3_endpoint_override) ==
    [fo EXCEPT !._s3_endpoint_override = s3_endpoint_override]

FileOptions_from_proto(file_options_proto) ==
    FileOptions_init(FileFormat_from_proto(file_options_proto.file_format),
                     file_options_proto.file_url,
                     file_options_proto.s3_endpoint_override)

\* FileOptions.to_proto, had it refused an absent file_format
to_proto_raise_on_absent_format(fo) ==
    IF FileOptions_file_format(fo) = None
    THEN [err |-> "ValueError"]
    ELSE [err |-> "",
          msg |-> [file_format |-> FileFormat_to_proto(FileOptions_file_format(fo)),
                   file_url |-> ProtoStr(FileOptions_file_url(fo)),
                   s3_endpoint_override |-> ProtoStr(FileOptions_s3_endpoint_override(fo))]]

\* FileOptions.to_proto
FileOptions_to_proto(fo) ==
    [err |-> "",
     msg |-> [file_format |->
                  ProtoMsg(IF FileOptions_file_format(fo) = None
                           THEN None
                           ELSE FileFormat_to_proto(FileOptions_file_format(fo))),
              file_url |-> ProtoStr(FileOptions_file_url(fo)),
              s3_endpoint_override |-> ProtoStr(FileOptions_s3_endpoint_override(fo))]]

-----------------------------------------------------------------------------
(* class FileSource *)

\* FileSource.__init__, had it stored the name argument as given
init_name_never_defaulted(args) ==
    IF args.path = None
    THEN [err |-> "ValueError"]
    ELSE [err |-> "",
          obj |-> DataSource_init(
                      [file_options |-> FileOptions_init(args.file_format, args.path,
                                                         args.s3_endpoint_override)],
                      args.name,
                      args.event_timestamp_column,
                      args.created_timestamp_column,
                      args.field_mapping,
                      args.date_partition_column)]

\* FileSource.__init__; args is the record of its keyword arguments
FileSource_init(args) ==
    IF args.path = None
    THEN [err |-> "ValueError"]
    ELSE [err |-> "",
          obj |-> DataSource_init(
                      [file_options |-> FileOptions_init(args.file_format, args.path,
                                                         args.s3_endpoint_override)],
                      IF Truthy(args.name) THEN args.name ELSE args.path,
                      args.event_timestamp_column,
                      args.created_timestamp_column,
                      args.field_mapping,
                      args.date_partition_column)]

\* the keyword arguments left at their defaults; field_mapping's default None
\* is the empty mapping to the base constructor
DefaultArgs(p, file_format, s3_endpoint_override) ==
    [path |-> p, name |-> "", event_timestamp_column |-> "",
     file_format |-> file_format, created_timestamp_column |-> "",
     field_mapping |-> {}, date_partition_column |-> "",
     s3_endpoint_override |-> s3_endpoint_override]

isinstance(obj, class) == obj.class = class

\* FileSource.__eq__, had it compared the stored fields of file_options
eq_on_stored_endpoint(self, other) ==
    IF ~isinstance(other, "FileSource")
    THEN [err |-> "TypeError"]
    ELSE [err |-> "",
          ret |-> /\ self.name = other.name
                  /\ self.file_options._file_url = other.file_options._file_url
                  /\ self.file_options._file_format = other.file_options._file_format
                  /\ self.event_timestamp_column = other.event_timestamp_column
                  /\ self.created_timestamp_column = other.created_timestamp_column
                  /\ self.field_mapping = other.field_mapping
                  /\ self.file_options._s3_endpoint_override
                         = other.file_options._s3_endpoint_override]

\* FileSource.__eq__, had it answered False to an object of another class
eq_false_on_other_class(self, other) ==
    IF ~isinstance(other, "FileSource")
    THEN [err |-> "", ret |-> FALSE]
    ELSE [err |-> "",
          ret |-> /\ self.name = other.name
                  /\ FileOptions_file_url(self.file_options)
                         = FileOptions_file_url(other.file_options)
                  /\ FileOptions_file_format(self.file_options)
                         = FileOptions_file_format(other.file_options)
                  /\ self.event_timestamp_column = other.event_timestamp_column
                  /\ self.created_timestamp_column = other.created_timestamp_column
                  /\ self.field_mapping = other.field_mapping
                  /\ FileOptions_s3_endpoint_override(self.file_options)
                         = FileOptions_s3_endpoint_override(other.file_options)]

\* FileSource.__eq__
FileSource_eq(self, other) ==
    IF ~isinstance(other, "FileSource")
    THEN [err |-> "TypeError"]
    ELSE [err |-> "",
          ret |-> /\ self.name = other.name
                  /\ FileOptions_file_url(self.file_options)
                         = FileOptions_file_url(other.file_options)
                  /\ FileOptions_file_format(self.file_options)
                         = FileOptions_file_format(other.file_options)
                  /\ self.event_timestamp_column = other.event_timestamp_column
                  /\ self.created_timestamp_column = other.created_timestamp_column
                  /\ self.field_mapping = other.field_mapping
                  /\ FileOptions_s3_endpoint_override(self.file_options)
                         = FileOptions_s3_endpoint_override(other.file_options)]

\* FileSource.path
FileSource_path(self) == FileOptions_file_url(self.file_options)

\* FileSource.from_proto
FileSource_from_proto(data_source) ==
    FileSource_init(
        [name |-> data_source.name,
         field_mapping |-> data_source.field_mapping,
         file_format |-> FileFormat_from_proto(data_source.file_options.file_format),
         path |-> data_source.file_options.file_url,
         event_timestamp_column |-> data_source.event_timestamp_column,
         created_timestamp_column |-> data_source.created_timestamp_column,
         date_partition_column |-> data_source.date_partition_column,
         s3_endpoint_override |-> data_source.file_options.s3_endpoint_override])

\* FileSource.to_proto
FileSource_to_proto(self) ==
    LET fo == FileOptions_to_proto(self.file_options) IN
    IF fo.err # ""
    THEN [err |-> fo.err]
    ELSE [err |-> "",
          msg |-> [name |-> self.name,
                   type |-> "BATCH_FILE",
                   field_mapping |-> self.field_mapping,
                   file_options |-> fo.msg,
                   event_timestamp_column |-> self.event_timestamp_column,
                   created_timestamp_column |-> self.created_timestamp_column,
                   date_partition_column |-> self.date_partition_column]]

-----------------------------------------------------------------------------
(* class SavedDatasetFileStorage *)

SavedDatasetFileStorage_init(p, file_format, s3_endpoint_override) ==
    [class |-> "SavedDatasetFileStorage",
     file_options |-> FileOptions_init(file_format, p, s3_endpoint_override)]

SavedDatasetFileStorage_from_proto(storage_proto) ==
    LET file_options == FileOptions_from_proto(storage_proto.file_storage) IN
    SavedDatasetFileStorage_init(FileOptions_file_url(file_options),
                                 FileOptions_file_format(file_options),
                                 FileOptions_s3_endpoint_override(file_options))

SavedDatasetFileStorage_to_proto(self) ==
    LET fo == FileOptions_to_proto(self.file_options) IN
    IF fo.err # "" THEN [err |-> fo.err]
    ELSE [err |-> "", msg |-> [file_storage |-> fo.msg]]

\* to_data_source, had it left file_format at its default
to_data_source_default_format(self) ==
    FileSource_init(DefaultArgs(FileOptions_file_url(self.file_options),
                                None,
                                FileOptions_s3_endpoint_override(self.file_options)))

\* SavedDatasetFileStorage.to_data_source
SavedDatasetFileStorage_to_data_source(self) ==
    FileSource_init(DefaultArgs(FileOptions_file_url(self.file_options),
                                FileOptions_file_format(self.file_options),
                                FileOptions_s3_endpoint_override(self.file_options)))

-----------------------------------------------------------------------------
(* The client programs.  Spec: one FileSource is alive at a time; it is    *)
(* constructed, mutated through its file_options setters, encoded, decoded *)
(* and discarded when superseded.  SpecStorage: the same for one           *)
(* SavedDatasetFileStorage, which is also converted to a data source.      *)

Args ==
    [path : Opt(PathStrs),
     name : Opt(NameStrs),
     event_timestamp_column : EventTsCols,
     file_format : Opt(FileFormats),
     created_timestamp_column : CreatedTsCols,
     field_mapping : FieldMappings,
     date_partition_column : PartitionCols,
     s3_endpoint_override : Opt(EndpointStrs)]

Setters == {"file_url", "file_format", "s3_endpoint_override"}

SetterValues(attr) ==
    CASE attr = "file_url" -> PathStrs
      [] attr = "file_format" -> Opt(FileFormats)
      [] attr = "s3_endpoint_override" -> Opt(EndpointStrs)

\* obj.file_options.<attr> = value
SetAttr(obj, attr, value) ==
    [obj EXCEPT !.file_options =
        CASE attr = "file_url" -> FileOptions_set_file_url(@, value)
          [] attr = "file_format" -> FileOptions_set_file_format(@, value)
          [] attr = "s3_endpoint_override" -> FileOptions_set_s3_endpoint_override(@, value)]

IdleOthers ==
    /\ lhs = NoObj
    /\ rhs = NoObj
    /\ call = Idle
    /\ pc = <<>>
    /\ self_path = <<>>
    /\ l_filesystem = <<>>
    /\ l_path = <<>>
    /\ table = <<>>
    /\ ret = <<>>
    /\ disk = <<>>

Init ==
    /\ src = NoObj
    /\ store = NoObj
    /\ out = Idle
    /\ IdleOthers

\* src = FileSource(**args)
Construct(args) ==
    /\ src = NoObj
    /\ LET r == FileSource_init(args) IN
       /\ src' = IF r.err = "" THEN r.obj ELSE NoObj
       /\ out' = [op |-> "FileSource", args |-> args, err |-> r.err]
    /\ UNCHANGED <<store, call, eqVars, introVars>>

\* src.file_options.<attr> = value
SetSource(attr, value) ==
    /\ src # NoObj
    /\ src' = SetAttr(src, attr, value)
    /\ out' = [op |-> "set", target |-> "FileSource", attr |-> attr, value |-> value]
    /\ UNCHANGED <<store, call, eqVars, introVars>>

\* msg = src.to_proto()
ToProto ==
    /\ src # NoObj
    /\ LET r == FileSource_to_proto(src) IN
       out' = IF r.err = ""
              THEN [op |-> "to_proto", self |-> src, err |-> "", msg |-> r.msg]
              ELSE [op |-> "to_proto", self |-> src, err |-> r.err]
    /\ UNCHANGED <<src, store, call, eqVars, introVars>>

\* src = FileSource.from_proto(msg), msg being the message just encoded
FromProto ==
    /\ out.op = "to_proto"
    /\ out.err = ""
    /\ LET r == FileSource_from_proto(out.msg) IN
       /\ src' = IF r.err = "" THEN r.obj ELSE src
       /\ out' = [op |-> "from_proto", encoded |-> out.self, msg |-> out.msg,
                  err |-> r.err]
    /\ UNCHANGED <<store, call, eqVars, introVars>>

\* the FileSource is superseded
Discard ==
    /\ src # NoObj
    /\ src' = NoObj
    /\ out' = Idle
    /\ UNCHANGED <<store, call, eqVars, introVars>>

\* store = SavedDatasetFileStorage(path, file_format, s3_endpoint_override)
ConstructStorage(p, file_format, s3_endpoint_override) ==
    /\ store = NoObj
    /\ store' = SavedDatasetFileStorage_init(p, file_format, s3_endpoint_override)
    /\ out' = [op |-> "SavedDatasetFileStorage"]
    /\ UNCHANGED <<src, call, eqVars, introVars>>

\* store.file_options.<attr> = value
SetStorage(attr, value) ==
    /\ store # NoObj
    /\ store' = SetAttr(store, attr, value)
    /\ out' = [op |-> "set", target |-> "SavedDatasetFileStorage", attr |-> attr,
               value |-> value]
    /\ UNCHANGED <<src, call, eqVars, introVars>>

\* msg = store.to_proto()
StorageToProto ==
    /\ store # NoObj
    /\ LET r == SavedDatasetFileStorage_to_proto(store) IN
       out' = IF r.err = ""
              THEN [op |-> "storage_to_proto", self |-> store, err |-> "", msg |-> r.msg]
              ELSE [op |-> "storage_to_proto", self |-> store, err |-> r.err]
    /\ UNCHANGED <<src, store, call, eqVars, introVars>>

\* store = SavedDatasetFileStorage.from_proto(msg), msg being the message just encoded
StorageFromProto ==
    /\ out.op = "storage_to_proto"
    /\ out.err = ""
    /\ store' = SavedDatasetFileStorage_from_proto(out.msg)
    /\ out' = [op |-> "storage_from_proto", msg |-> out.msg]
    /\ UNCHANGED <<src, call, eqVars, introVars>>

\* store.to_data_source()
ToDataSource ==
    /\ store # NoObj
    /\ LET r == SavedDatasetFileStorage_to_data_source(store) IN
       out' = IF r.err = ""
              THEN [op |-> "to_data_source", self |-> store, err |-> "", ret |-> r.obj]
              ELSE [op |-> "to_data_source", self |-> store, err |-> r.err]
    /\ UNCHANGED <<src, store, call, eqVars, introVars>>

\* the SavedDatasetFileStorage is superseded
DiscardStorage ==
    /\ store # NoObj
    /\ store' = NoObj
    /\ out' = Idle
    /\ UNCHANGED <<src, call, eqVars, introVars>>

Next ==
    \/ \E args \in Args : Construct(args)
    \/ \E attr \in Setters : \E value \in SetterValues(attr) : SetSource(attr, value)
    \/ ToProto
    \/ FromProto
    \/ Discard

Spec == Init /\ [][Next]_vars

\* options = FileOptions.from_proto(msg.file_storage), msg being the message just encoded
OptionsFromProto ==
    /\ out.op = "storage_to_proto"
    /\ out.err = ""
    /\ out' = [op |-> "FileOptions.from_proto", msg |-> out.msg,
               ret |-> FileOptions_from_proto(out.msg.file_storage)]
    /\ UNCHANGED <<src, store, call, eqVars, introVars>>

NextStorage ==
    \/ \E p \in PathStrs, ff \in Opt(FileFormats), ep \in Opt(EndpointStrs) :
          ConstructStorage(p, ff, ep)
    \/ \E attr \in Setters : \E value \in SetterValues(attr) : SetStorage(attr, value)
    \/ StorageToProto
    \/ StorageFromProto
    \/ OptionsFromProto
    \/ ToDataSource
    \/ DiscardStorage

SpecStorage == Init /\ [][NextStorage]_vars

-----------------------------------------------------------------------------
(* SpecEq: the comparison a == b of a FileSource a with an object b.  The  *)
(* operands are any two objects the constructors produce.                  *)

EqArgs ==
    [path : PathStrs \ {""},
     name : {None, "driver_stats"},
     event_timestamp_column : EventTsCols,
     file_format : Opt(FileFormats),
     created_timestamp_column : CreatedTsCols,
     field_mapping : FieldMappings,
     date_partition_column : PartitionCols,
     s3_endpoint_override : Opt(EndpointStrs)]

Sources == {FileSource_init(args).obj : args \in EqArgs}

Storages ==
    {SavedDatasetFileStorage_init(p, ff, ep) :
        p \in PathStrs \ {""}, ff \in Opt(FileFormats), ep \in Opt(EndpointStrs)}

\* data sources of another variant, whatever their field values
OtherSources ==
    {[FileSource_init(DefaultArgs(p, ff, None)).obj EXCEPT !.class = "RedshiftSource"] :
        p \in PathStrs \ {""}, ff \in Opt(FileFormats)}

InitEq ==
    /\ lhs \in Sources
    /\ rhs \in Sources \cup Storages \cup OtherSources \cup {NoObj}
    /\ out = Idle
    /\ src = NoObj
    /\ store = NoObj
    /\ call = Idle
    /\ pc = <<>>
    /\ self_path = <<>>
    /\ l_filesystem = <<>>
    /\ l_path = <<>>
    /\ table = <<>>
    /\ ret = <<>>
    /\ disk = <<>>

\* lhs == rhs
Compare ==
    /\ out = Idle
    /\ LET r == FileSource_eq(lhs, rhs) IN
       out' = IF r.err = ""
              THEN [op |-> "eq", err |-> "", ret |-> r.ret]
              ELSE [op |-> "eq", err |-> r.err]
    /\ UNCHANGED <<src, store, call, eqVars, introVars>>

NextEq == Compare

SpecEq == InitEq /\ [][NextEq]_vars

-----------------------------------------------------------------------------
(* The path resolver.  Here the code looks inside the path string, so a    *)
(* path is a sequence of tokens and its string is their concatenation:     *)
(* <<"s3://", "bkt", "/", "f.parquet">> is "s3://bkt/f.parquet".  No token  *)
(* but "s3://" holds an "s", a "3" or a ":", so the occurrences of the      *)
(* substring "s3://" in the string are exactly the tokens "s3://", and no  *)
(* token but "/" and "s3://" holds a "/".                                  *)

MaxPathLen == 4

PathTokens == {"s3://", "/", "bkt", "f.parquet"}

TokenPaths == UNION {[1..n -> PathTokens] : n \in 0..MaxPathLen}

\* str.startswith(prefix), prefix a single token
startswith(s, prefix) == Len(s) >= 1 /\ s[1] = prefix

\* str.replace(old, ""), old a single token: every occurrence goes
RECURSIVE replace_with_empty(_, _)
replace_with_empty(s, old) ==
    IF s = <<>> THEN <<>>
    ELSE IF Head(s) = old
         THEN replace_with_empty(Tail(s), old)
         ELSE <<Head(s)>> \o replace_with_empty(Tail(s), old)

\* S3FileSystem(client_kwargs=...)
S3FileSystem(client_kwargs) == [class |-> "S3FileSystem", client_kwargs |-> client_kwargs]

\* FileSource.create_filesystem_and_path
create_filesystem_and_path(p, s3_endpoint_override) ==
    IF startswith(p, "s3://")
    THEN [filesystem |->
              S3FileSystem(IF Truthy(s3_endpoint_override)
                           THEN [endpoint_url |-> s3_endpoint_override]
                           ELSE NoObj),
          path |-> replace_with_empty(p, "s3://")]
    ELSE [filesystem |-> NoObj, path |-> p]

InitResolve ==
    /\ call \in [op : {"pending"}, path : TokenPaths, s3_endpoint_override : Opt(EndpointStrs)]
    /\ out = Idle
    /\ src = NoObj
    /\ store = NoObj
    /\ lhs = NoObj
    /\ rhs = NoObj
    /\ pc = <<>>
    /\ self_path = <<>>
    /\ l_filesystem = <<>>
    /\ l_path = <<>>
    /\ table = <<>>
    /\ ret = <<>>
    /\ disk = <<>>

\* FileSource.create_filesystem_and_path(call.path, call.s3_endpoint_override)
Resolve ==
    /\ call.op = "pending"
    /\ call' = [op |-> "returned", path |-> call.path,
                s3_endpoint_override |-> call.s3_endpoint_override,
                ret |-> create_filesystem_and_path(call.path, call.s3_endpoint_override)]
    /\ UNCHANGED <<src, store, out, eqVars, introVars>>

NextResolve == Resolve

SpecResolve == InitResolve /\ [][NextResolve]_vars

-----------------------------------------------------------------------------
(* SpecIntrospect: callers of get_table_column_names_and_types running     *)
(* concurrently, each on its own FileSource, against one object store and  *)
(* one local filesystem.  A table is modelled by its arrow schema, a       *)
(* sequence of <<column name, type>>.  A file being written holds no       *)
(* readable table until the writer has finished.                           *)

NumCallers == 2

Callers == 1..NumCallers

\* the files the callers' sources point at
RemoteFiles ==
    {<<"s3://", "bkt1", "/", "f.parquet">>,
     <<"s3://", "bkt2", "/", "f.parquet">>,
     <<"s3://", "bkt1", "/", "g.parquet">>}

LocalFiles == {<<"/", "data", "/", "f.parquet">>}

\* what the object store holds under a key (the path without its scheme)
ObjectStore(key) ==
    CASE key = <<"bkt1", "/", "f.parquet">> ->
             <<<<"driver_id", "int64">>, <<"event_ts", "timestamp[us]">>>>
      [] key = <<"bkt2", "/", "f.parquet">> ->
             <<<<"customer_id", "string">>>>
      [] key = <<"bkt1", "/", "g.parquet">> ->
             <<<<"order_id", "int64">>, <<"amount", "double">>>>

Partial == <<<<"PAR1", "truncated">>>>

\* path.split('/')[-1]: what follows the last "/"
RECURSIVE split_last(_)
split_last(s) ==
    IF s = <<>> THEN <<>>
    ELSE IF s[Len(s)] = "/" THEN <<>>
         ELSE split_last(SubSeq(s, 1, Len(s) - 1)) \o <<s[Len(s)]>>

\* the temporary path, had it been one fixed name
tmp_path_shared(p) == <<"/", "tmp", "/", "table.parquet">>

\* f"/tmp/{path.split('/')[-1]}"
tmp_path(p) == <<"/", "tmp", "/">> \o split_last(p)

InitIntrospect ==
    /\ pc = [c \in Callers |-> "start"]
    /\ self_path \in [Callers -> RemoteFiles \cup LocalFiles]
    /\ l_filesystem = [c \in Callers |-> NoObj]
    /\ l_path = [c \in Callers |-> <<>>]
    /\ table = [c \in Callers |-> <<>>]
    /\ ret = [c \in Callers |-> <<>>]
    /\ disk = [p \in LocalFiles |-> <<<<"user_id", "int64">>>>]
    /\ out = Idle
    /\ src = NoObj
    /\ store = NoObj
    /\ lhs = NoObj
    /\ rhs = NoObj
    /\ call = Idle

\* filesystem, path = FileSource.create_filesystem_and_path(self.path, ...);
\* the callers' sources carry no endpoint override
CallResolve(c) ==
    /\ pc[c] = "start"
    /\ LET r == create_filesystem_and_path(self_path[c], None) IN
       /\ l_filesystem' = [l_filesystem EXCEPT ![c] = r.filesystem]
       /\ l_path' = [l_path EXCEPT ![c] = r.path]
    /\ pc' = [pc EXCEPT ![c] = IF l_filesystem'[c] # NoObj THEN "read_table" ELSE "read_schema"]
    /\ UNCHANGED <<src, store, out, call, eqVars, self_path, table, ret, disk>>

\* pq.read_table(path, filesystem=filesystem).to_pandas()
ReadTable(c) ==
    /\ pc[c] = "read_table"
    /\ table' = [table EXCEPT ![c] = ObjectStore(l_path[c])]
    /\ pc' = [pc EXCEPT ![c] = "to_parquet"]
    /\ UNCHANGED <<src, store, out, call, eqVars, self_path, l_filesystem, l_path, ret, disk>>

\* .to_parquet(f"/tmp/{...}") opens the file for writing, which truncates it
OpenTmp(c) ==
    /\ pc[c] = "to_parquet"
    /\ disk' = (tmp_path(l_path[c]) :> Partial) @@ disk
    /\ pc' = [pc EXCEPT ![c] = "writing"]
    /\ UNCHANGED <<src, store, out, call, eqVars, self_path, l_filesystem, l_path, table, ret>>

\* .to_parquet(...) has written the table; path = f"/tmp/{...}"
CloseTmp(c) ==
    /\ pc[c] = "writing"
    /\ disk' = (tmp_path(l_path[c]) :> table[c]) @@ disk
    /\ l_path' = [l_path EXCEPT ![c] = tmp_path(l_path[c])]
    /\ pc' = [pc EXCEPT ![c] = "read_schema"]
    /\ UNCHANGED <<src, store, out, call, eqVars, self_path, l_filesystem, table, ret>>

\* schema = ParquetFile(path).schema_arrow; return zip(schema.names, map(str, schema.types))
ReadSchema(c) ==
    /\ pc[c] = "read_schema"
    /\ ret' = [ret EXCEPT ![c] =
                  IF l_path[c] \notin DOMAIN disk THEN <<<<"FileNotFoundError">>>>
                  ELSE IF disk[l_path[c]] = Partial THEN <<<<"ArrowInvalid">>>>
                  ELSE disk[l_path[c]]]
    /\ pc' = [pc EXCEPT ![c] = "done"]
    /\ UNCHANGED <<src, store, out, call, eqVars, self_path, l_filesystem, l_path, table, disk>>

NextIntrospect ==
    \E c \in Callers :
        \/ CallResolve(c)
        \/ ReadTable(c)
        \/ OpenTmp(c)
        \/ CloseTmp(c)
        \/ ReadSchema(c)

SpecIntrospect == InitIntrospect /\ [][NextIntrospect]_vars

-----------------------------------------------------------------------------
(* Properties *)

\* the seven fields the specification compares, as their accessors read them
SevenFields(d) ==
    <<d.name,
      FileSource_path(d),
      FileOptions_file_format(d.file_options),
      d.event_timestamp_column,
      d.created_timestamp_column,
      d.field_mapping,
      FileOptions_s3_endpoint_override(d.file_options)>>

\* C1: for every FileSource d with a concrete file_format,
\* FileSource.from_proto(d.to_proto()) == d under FileSource.__eq__.
C1_RoundTrip ==
    (out.op = "from_proto" /\ FileOptions_file_format(out.encoded.file_options) # None)
        => /\ out.err = ""
           /\ FileSource_eq(src, out.encoded) = [err |-> "", ret |-> TRUE]

\* C1 for the descriptors that have a name: holds.  A descriptor has no name
\* only if it was constructed with the empty path and no name.
C1_RoundTripOfNamed ==
    (out.op = "from_proto" /\ out.encoded.name # "")
        => /\ out.err = ""
           /\ FileSource_eq(src, out.encoded) = [err |-> "", ret |-> TRUE]

\* descriptors another FileSource may be compared with after lhs == rhs: rhs
\* with its endpoint override set anew, and rhs encoded and decoded
Variants(d) ==
    {SetAttr(d, "s3_endpoint_override", ep) : ep \in Opt(EndpointStrs)}
        \cup {FileSource_from_proto(FileSource_to_proto(d).msg).obj}

\* C2: a == b is true iff the seven fields name, path, file_format,
\* event_timestamp_column, created_timestamp_column, field_mapping and
\* s3_endpoint_override are equal; so == is reflexive, symmetric and transitive.
C2_EqIffSevenFieldsEqual ==
    isinstance(rhs, "FileSource") =>
        /\ FileSource_eq(lhs, rhs)
               = [err |-> "", ret |-> SevenFields(lhs) = SevenFields(rhs)]
        /\ out.op = "eq" => (out.err = "" /\ out.ret = (SevenFields(lhs) = SevenFields(rhs)))
        /\ FileSource_eq(lhs, lhs) = [err |-> "", ret |-> TRUE]
        /\ FileSource_eq(rhs, lhs) = FileSource_eq(lhs, rhs)
        /\ \A c \in Variants(rhs) :
               (FileSource_eq(lhs, rhs).ret /\ FileSource_eq(rhs, c).ret)
                   => FileSource_eq(lhs, c).ret

\* C2 witness: two descriptors that differ in what they store (the date
\* partition column, and "" against None as endpoint override) compared equal.
C2_Witness ==
    /\ out.op = "eq"
    /\ out.err = ""
    /\ out.ret
    /\ lhs # rhs
    /\ lhs.file_options._s3_endpoint_override = ""
    /\ rhs.file_options._s3_endpoint_override = None

\* C3: FileSource(path) with path None or "" raises and yields no descriptor;
\* every constructed FileSource has a non-empty path.
C3_EmptyPathRejected ==
    out.op = "FileSource" =>
        /\ out.args.path \in {None, ""} => (out.err # "" /\ src = NoObj)
        /\ out.err = "" => FileSource_path(src) # ""

\* C4: comparing a FileSource with a value that is not a FileSource always
\* raises TypeError, whatever the field values of the operands.
C4_OtherClassRaises ==
    ~isinstance(rhs, "FileSource") =>
        /\ FileSource_eq(lhs, rhs) = [err |-> "TypeError"]
        /\ out.op = "eq" => out.err = "TypeError"

\* C4 witness: a FileSource compared with a SavedDatasetFileStorage of the
\* same path, format and endpoint override raised TypeError.
C4_Witness ==
    /\ out.op = "eq"
    /\ out.err = "TypeError"
    /\ isinstance(rhs, "SavedDatasetFileStorage")
    /\ rhs.file_options = lhs.file_options

\* C5: constructed with a non-empty path p and no name, the name is p; and a
\* file_options setter call leaves the name as it was, while the path accessor
\* returns the latest file_url.
C5_NameFixedAtConstruction ==
    /\ [](out.op = "FileSource" /\ out.err = "" /\ ~Truthy(out.args.name)
              /\ out.args.path # ""
            => src.name = out.args.path)
    /\ [][out'.op = "set"
            => /\ src'.name = src.name
               /\ out'.attr = "file_url" => FileSource_path(src') = out'.value
               /\ out'.attr # "file_url" => FileSource_path(src') = FileSource_path(src)]_vars

\* C5 witness: the name is the path given at construction, and the path has
\* been set to another file since.
C5_Witness ==
    /\ out.op = "set"
    /\ out.attr = "file_url"
    /\ src.name = "data/f.parquet"
    /\ FileSource_path(src) = "s3://bkt/f.parquet"

\* C6: create_filesystem_and_path(path, endpoint) returns a filesystem and path
\* without its leading "s3://", the rest unchanged, when path begins with
\* "s3://"; otherwise no filesystem and path unchanged.
C6_StripsLeadingSchemeOnly ==
    call.op = "returned" =>
        IF startswith(call.path, "s3://")
        THEN /\ call.ret.filesystem # NoObj
             /\ call.ret.path = Tail(call.path)
        ELSE /\ call.ret.filesystem = NoObj
             /\ call.ret.path = call.path

\* the object-store key of a remote file
Key(p) == Tail(p)

\* C7: two concurrent introspections of different remote files that share a
\* base name can return each other's schema.  What holds of every run: a
\* caller on a remote file returns that file's schema, unless another caller
\* on a remote file of the same base name has opened the temporary file, and
\* then it returns that caller's schema or fails on the half-written file.
C7_CollisionOnSharedBaseName ==
    \A c \in Callers :
        (pc[c] = "done" /\ self_path[c] \in RemoteFiles) =>
            \/ ret[c] = ObjectStore(Key(self_path[c]))
            \/ \E d \in Callers \ {c} :
                  /\ self_path[d] \in RemoteFiles
                  /\ split_last(self_path[d]) = split_last(self_path[c])
                  /\ pc[d] \in {"writing", "read_schema", "done"}
                  /\ ret[c] \in {ObjectStore(Key(self_path[d])), <<<<"ArrowInvalid">>>>}

\* C7 witness: a caller has returned the schema of the other caller's file.
C7_Witness ==
    \E c \in Callers : \E d \in Callers \ {c} :
        /\ pc[c] = "done"
        /\ self_path[c] \in RemoteFiles
        /\ self_path[d] \in RemoteFiles
        /\ self_path[d] # self_path[c]
        /\ ret[c] = ObjectStore(Key(self_path[d]))
        /\ ret[c] # ObjectStore(Key(self_path[c]))

\* the FileOptions records of the state
OptionsRecords ==
    (IF store # NoObj THEN {store.file_options} ELSE {})
        \cup (IF out.op = "FileOptions.from_proto" THEN {out.ret} ELSE {})
        \cup (IF out.op = "to_data_source" /\ out.err = ""
              THEN {out.ret.file_options} ELSE {})

\* C8: reading s3_endpoint_override never returns "": it returns None when ""
\* or None is stored and the stored string otherwise; a record decoded from a
\* message whose s3_endpoint_override is "" reads back None.
C8_EndpointNeverReadsEmpty ==
    /\ \A fo \in OptionsRecords :
          /\ FileOptions_s3_endpoint_override(fo) # ""
          /\ FileOptions_s3_endpoint_override(fo) =
                 IF fo._s3_endpoint_override \in {"", None}
                 THEN None ELSE fo._s3_endpoint_override
    /\ (out.op = "FileOptions.from_proto"
            /\ out.msg.file_storage.s3_endpoint_override = "")
          => FileOptions_s3_endpoint_override(out.ret) = None

\* C8 witness: a record decoded from a message with an empty override stores "".
C8_Witness ==
    /\ out.op = "FileOptions.from_proto"
    /\ out.msg.file_storage.s3_endpoint_override = ""
    /\ out.ret._s3_endpoint_override = ""

====
